---------------------------- MODULE Spec2Model ----------------------------
(***************************************************************************)
(* Rank-based significance tests of the indicator tool suite:              *)
(*   kruskal-wallis.cc (omnibus), mann-whit.cc (rank sum) and              *)
(*   wilcoxon-sign.cc (paired signed rank).                                *)
(*                                                                         *)
(* Conventions of the model                                                *)
(*  - C arrays are sequences: the C element x[i] is x[i + 1] here.         *)
(*  - Observations are integers.  A line of the indicator file is a        *)
(*    record [num, val]: num says whether sscanf(line, "%lf") parses it.   *)
(*  - Ranks are kept DOUBLED (the field rank holds 2 * rank), so that the  *)
(*    averaged rank of a tie run, which may end in .5, stays an integer.   *)
(*    Every sum of ranks is doubled in the same way and a sum of squared   *)
(*    ranks is kept times 4.                                               *)
(*  - A read past the end of a malloc'ed array, or of a slot that was      *)
(*    never written, yields a value chosen by the action that reads.       *)
(***************************************************************************)
EXTENDS Integers, Sequences, FiniteSets, TLC

VARIABLES tool,      \* which of the three programs runs
          file,      \* the indicator file: a sequence of lines
          pc,        \* position of main
          Nsamp,     \* int *Nsamp: MAX_DISTS counters
          ndist,     \* number of sample populations
          N,         \* total number of values in the input
          d,         \* D *d: the loaded observations
          pair,      \* D *pair (mann-whit.cc): the shared pair buffer
          pairHigh,  \* number of leading slots of pair whose value was ever written
          p,         \* P *p (wilcoxon-sign.cc): the differences of the current pair
          j, k,      \* loop indices of main (mann-whit.cc)
          a, b,      \* loop indices of main (wilcoxon-sign.cc)
          out,       \* the lines of the output file
          call,      \* the last call of assign_ranks: its pool, the slots behind it, its result
          stat,      \* the statistics computed last
          param,     \* the parameter file: whether fopen succeeds, and what it holds
          alpha,     \* double alpha of main (kruskal-wallis.cc)
          err,       \* the diagnostics written to stderr
          nsampIdx   \* the indices at which Nsamp was read or written

vars == <<tool, file, pc, Nsamp, ndist, N, d, pair, pairHigh, p, j, k, a, b, out, call, stat,
          param, alpha, err, nsampIdx>>

-----------------------------------------------------------------------------
(* Program constants *)

MAX_DISTS == 30

\* 10e99, the value that replaces a zero difference (wilcoxon-sign.cc).  The
\* model's observations are small integers; Sentinel is the magnitude that
\* plays the part of 10e99 among them, and BigValue (below) is an observation
\* whose differences lie above it, as an input line 1e200 does in the program.
Sentinel == 1000

\* a sample of fewer than 20 values gets the small-sample warning
SmallSample == 20

\* the bounds of the range test of alpha, in thousandths: 0.1 and 0
AlphaMax == 100
AlphaMin == 0

\* the smallest number of non-zero differences wilcoxon-sign.cc accepts, and
\* the largest row of the table W
MinDiffs == 4
MaxRow == 50

-----------------------------------------------------------------------------
(* Bounds of the model *)

MaxLines == 6        \* longest indicator file of the free-form inputs
MaxValue == 2        \* observations of the free-form inputs are 1..MaxValue

MaxPairs == 5        \* largest sample of the paired inputs (wilcoxon-sign.cc)
WXMaxValue == 2      \* their observations are 0..WXMaxValue, or BigValue
WXMaxBase == 1       \* every observation of their first sample is one c in 0..WXMaxBase
BigValue == 2000     \* an observation whose differences exceed Sentinel

\* what a read of foreign memory yields when it equals no observation
Garbage == 0 - 1

-----------------------------------------------------------------------------
(* Generic helpers *)

Blank == [num |-> FALSE, val |-> 0]
Num(v) == [num |-> TRUE, val |-> v]

\* every sequence over S of length 1..n
SeqsUpTo(S, n) == UNION {[1..m -> S] : m \in 1..n}

RECURSIVE SumSeq(_, _)
SumSeq(s, n) == IF n = 0 THEN 0 ELSE s[n] + SumSeq(s, n - 1)

myabs(v) == IF v >= 0 THEN v ELSE 0 - v


-----------------------------------------------------------------------------
(* The arithmetic of the C type double (IEEE 754 binary64), for the        *)
(* statistics that are computed in it: every operation gives the double    *)
(* nearest to the exact result, ties to even.  Significands are kept as     *)
(* magnitudes of several limbs, so that the exact product and quotient of   *)
(* two 53-bit significands can be formed before they are rounded.  The      *)
(* operands are bound through Only, so that each is computed once.          *)

\* the significand of a double has 53 bits
Precision == 53

\* a magnitude is a sequence of limbs, lowest first, of LimbBits bits each
LimbBits == 15
LimbBase == 32768

\* the element of a set of one element
Only(S) == CHOOSE r \in S : TRUE

\* the magnitude of the integer v >= 0
RECURSIVE BigOfInt(_)
BigOfInt(v) == IF v = 0 THEN << >> ELSE <<v % LimbBase>> \o BigOfInt(v \div LimbBase)

\* u without its leading zero limbs
BigStrip(u) ==
    LET nz == {i \in 1..Len(u) : u[i] # 0}
    IN IF nz = {} THEN << >>
       ELSE SubSeq(u, 1, CHOOSE i \in nz : \A h \in nz : h <= i)

BigLimb(u, i) == IF i <= Len(u) THEN u[i] ELSE 0

\* the sign of u - w
BigCmp(u, w) ==
    LET diff == {i \in 1..(Len(u) + Len(w)) : BigLimb(u, i) # BigLimb(w, i)}
    IN IF diff = {} THEN 0
       ELSE Only({IF BigLimb(u, top) > BigLimb(w, top) THEN 1 ELSE 0 - 1 :
                     top \in {i \in diff : \A h \in diff : h <= i}})

RECURSIVE BigAddFrom(_, _, _, _)
BigAddFrom(u, w, i, carry) ==
    IF i > Len(u) /\ i > Len(w) THEN (IF carry = 0 THEN << >> ELSE <<carry>>)
    ELSE Only({<<t % LimbBase>> \o BigAddFrom(u, w, i + 1, t \div LimbBase) :
                  t \in {BigLimb(u, i) + BigLimb(w, i) + carry}})

BigAdd(u, w) == BigAddFrom(u, w, 1, 0)

RECURSIVE BigSubFrom(_, _, _, _)
BigSubFrom(u, w, i, borrow) ==
    IF i > Len(u) THEN << >>
    ELSE Only({IF t < 0 THEN <<t + LimbBase>> \o BigSubFrom(u, w, i + 1, 1)
               ELSE <<t>> \o BigSubFrom(u, w, i + 1, 0) :
                  t \in {u[i] - BigLimb(w, i) - borrow}})

\* u - w, for u >= w
BigSub(u, w) == BigStrip(BigSubFrom(u, w, 1, 0))

RECURSIVE BigMulSmallFrom(_, _, _, _)
BigMulSmallFrom(u, fac, i, carry) ==
    IF i > Len(u) THEN (IF carry = 0 THEN << >> ELSE <<carry>>)
    ELSE Only({<<t % LimbBase>> \o BigMulSmallFrom(u, fac, i + 1, t \div LimbBase) :
                  t \in {u[i] * fac + carry}})

\* u * fac, for a fac below LimbBase
BigMulSmall(u, fac) == IF fac = 0 THEN << >> ELSE BigMulSmallFrom(u, fac, 1, 0)

\* u * LimbBase^c
BigShiftLimbs(u, c) == IF u = << >> THEN << >> ELSE [i \in 1..c |-> 0] \o u

RECURSIVE BigMulFrom(_, _, _, _)
BigMulFrom(u, w, i, acc) ==
    IF i > Len(w) THEN acc
    ELSE Only({BigMulFrom(u, w, i + 1, nacc) :
                  nacc \in {BigAdd(acc, BigShiftLimbs(BigMulSmall(u, w[i]), i - 1))}})

BigMul(u, w) == BigMulFrom(u, w, 1, << >>)

\* u * 2^bits
BigShl(u, bits) ==
    BigShiftLimbs(BigMulSmall(u, 2 ^ (bits % LimbBits)), bits \div LimbBits)

\* the number of bits of u
BitLen(u) ==
    IF u = << >> THEN 0
    ELSE LimbBits * (Len(u) - 1)
         + (CHOOSE c \in 1..LimbBits : 2 ^ (c - 1) <= u[Len(u)] /\ u[Len(u)] < 2 ^ c)

\* the largest q in lo..hi with q * w <= r  (lo * w <= r is given)
RECURSIVE BigDigit(_, _, _, _)
BigDigit(r, w, lo, hi) ==
    IF lo = hi THEN lo
    ELSE Only({IF BigCmp(BigMulSmall(w, mid), r) <= 0 THEN BigDigit(r, w, mid, hi)
               ELSE BigDigit(r, w, lo, mid - 1) :
                  mid \in {(lo + hi + 1) \div 2}})

\* long division of u by w, from limb i of u downwards; q holds the limbs found (highest
\* first) and r the remainder so far
RECURSIVE BigDivFrom(_, _, _, _, _)
BigDivFrom(u, w, i, q, r) ==
    IF i = 0 THEN [q |-> BigStrip(q), r |-> r]
    ELSE Only({Only({Only({BigDivFrom(u, w, i - 1, <<dg>> \o q, rem) :
                              rem \in {BigSub(cur, BigMulSmall(w, dg))}}) :
                        dg \in {BigDigit(cur, w, 0, LimbBase - 1)}}) :
                  cur \in {BigStrip(<<u[i]>> \o r)}})

BigDivMod(u, w) == BigDivFrom(u, w, Len(u), << >>, << >>)

BigOdd(u) == u # << >> /\ u[1] % 2 = 1

\* the quotient dv = [q, r] of a division by dn, rounded to nearest with
\* ties to even (the rounding of every operation on doubles); a carry into
\* bit Precision + 1 moves the exponent
RoundQuot(dv, dn, ex) ==
    Only({IF BitLen(q) > Precision
          THEN [sign |-> 1, m |-> BigDivMod(q, <<2>>).q, e |-> ex + 1]
          ELSE [sign |-> 1, m |-> q, e |-> ex] :
             q \in {Only({IF half > 0 \/ (half = 0 /\ BigOdd(dv.q))
                          THEN BigAdd(dv.q, <<1>>) ELSE dv.q :
                             half \in {BigCmp(BigMulSmall(dv.r, 2), dn)}})}})

\* (num / den) * 2^e with the numerator shifted left by sh bits (the
\* denominator by -sh bits when sh < 0)
Scaled(num, den, e, sh) ==
    Only({Only({[dv |-> dv, dn |-> dn] : dv \in {BigDivMod(nm, dn)}}) :
             nm \in {IF sh > 0 THEN BigShl(num, sh) ELSE num},
             dn \in {IF sh < 0 THEN BigShl(den, 0 - sh) ELSE den}})

\* the double nearest to (num / den) * 2^e, ties to even; num, den > 0
RoundRat(num, den, e) ==
    Only({Only({IF BitLen(sc.dv.q) = Precision
                THEN RoundQuot(sc.dv, sc.dn, e - s0)
                ELSE Only({RoundQuot(sd.dv, sd.dn, e - s0 - 1) :
                              sd \in {Scaled(num, den, e, s0 + 1)}}) :
                   sc \in {Scaled(num, den, e, s0)}}) :
             s0 \in {(Precision - 1) - (BitLen(num) - BitLen(den))}})

\* a double is [sign, m, e]: sign * m * 2^e with m of Precision bits;
\* zero has sign 0
FZero == [sign |-> 0, m |-> << >>, e |-> 0]
FNeg(x) == [x EXCEPT !.sign = 0 - x.sign]
\* double(v) of an integer v
FInt(v) == IF v = 0 THEN FZero
           ELSE IF v > 0 THEN RoundRat(BigOfInt(v), <<1>>, 0)
           ELSE FNeg(RoundRat(BigOfInt(0 - v), <<1>>, 0))
\* v / 4.0 of an integer v
FQuarter(v) == Only({[f EXCEPT !.e = IF v = 0 THEN 0 ELSE @ - 2] : f \in {FInt(v)}})

\* x * y
FMulV(x, y) ==
    IF x.sign = 0 \/ y.sign = 0 THEN FZero
    ELSE Only({[RoundRat(pm, <<1>>, x.e + y.e) EXCEPT !.sign = x.sign * y.sign] :
                  pm \in {BigMul(x.m, y.m)}})
FMul(xx, yy) == Only({FMulV(x, y) : x \in {xx}, y \in {yy}})

\* x / y, y not zero
FDivV(x, y) ==
    IF x.sign = 0 THEN FZero
    ELSE [RoundRat(x.m, y.m, x.e - y.e) EXCEPT !.sign = x.sign * y.sign]
FDiv(xx, yy) == Only({FDivV(x, y) : x \in {xx}, y \in {yy}})

\* x + y
FAddV(x, y) ==
    IF x.sign = 0 THEN y
    ELSE IF y.sign = 0 THEN x
    ELSE Only({Only({
            IF x.sign = y.sign
            THEN [RoundRat(BigAdd(mx, my), <<1>>, e0) EXCEPT !.sign = x.sign]
            ELSE IF BigCmp(mx, my) = 0 THEN FZero
            ELSE IF BigCmp(mx, my) > 0
                 THEN [RoundRat(BigSub(mx, my), <<1>>, e0) EXCEPT !.sign = x.sign]
                 ELSE [RoundRat(BigSub(my, mx), <<1>>, e0) EXCEPT !.sign = y.sign] :
               mx \in {BigShl(x.m, x.e - e0)}, my \in {BigShl(y.m, y.e - e0)}}) :
          e0 \in {IF x.e < y.e THEN x.e ELSE y.e}})
FAdd(xx, yy) == Only({FAddV(x, y) : x \in {xx}, y \in {yy}})

\* x - y
FSub(xx, yy) == Only({FAddV(x, FNeg(y)) : x \in {xx}, y \in {yy}})

\* the sign of x - y
FCmpV(x, y) ==
    IF x.sign # y.sign THEN (IF x.sign > y.sign THEN 1 ELSE 0 - 1)
    ELSE IF x.sign = 0 THEN 0
    ELSE Only({x.sign * BigCmp(BigShl(x.m, x.e - e0), BigShl(y.m, y.e - e0)) :
                  e0 \in {IF x.e < y.e THEN x.e ELSE y.e}})
FCmp(xx, yy) == Only({FCmpV(x, y) : x \in {xx}, y \in {yy}})

-----------------------------------------------------------------------------
(* assign_ranks: the loop shared, line for line, by the three programs.    *)
(* key is the comparison key of the slots 0..N+1 as the call finds them    *)
(* (key[i + 1] is the key of slot i): the pool in 0..N-1 and whatever lies *)
(* behind it in N and N+1.  rank is the rank field of the slots 0..N.      *)

\* the do-while: entered with ahead = &d[i + 1], count and totalrank as set
\* before it; yields count and totalrank as the loop leaves them
RECURSIVE TieScan(_, _, _, _, _, _)
TieScan(key, n, i, crank, count, totalrank) ==
    LET c == count + 1                       \* ahead++; count++
        t == totalrank + (crank + c)         \* totalrank += (crank + count)
    IN IF key[(i + 1 + c) + 1] = key[i + 1] /\ i + c < n - 1
       THEN TieScan(key, n, i, crank, c, t)
       ELSE [count |-> c, totalrank |-> t]

\* the rank written to every element of a tie run: totalrank / (count + 1), doubled
RunRankDrop(totalrank, count) == 2 * (totalrank \div (count + 1))
RunRank(totalrank, count) == (2 * totalrank) \div (count + 1)

\* the while loop; acc collects the ranks written, total_ties, and for the
\* element each iteration starts at the value of crank (start), the highest
\* slot whose key was read (rd) and whose rank was written (wr)
RECURSIVE RankLoop(_, _, _, _, _)
RankLoop(key, n, i, crank, acc) ==
    IF ~(i < n) THEN acc
    ELSE IF key[(i + 1) + 1] = key[i + 1]
         THEN LET s == TieScan(key, n, i, crank, 0, crank)
                  r == RunRank(s.totalrank, s.count)
              IN RankLoop(key, n, i + s.count + 1, crank + s.count + 1,
                          [rank |-> [x \in 1..(n + 1) |->
                                        IF x - 1 \in i..(i + s.count) THEN r ELSE acc.rank[x]],
                           total_ties |-> acc.total_ties + s.count,
                           start |-> [acc.start EXCEPT ![i + 1] = crank],
                           rd |-> i + 1 + s.count,
                           wr |-> i + s.count])
         ELSE RankLoop(key, n, i + 1, crank + 1,
                       [acc EXCEPT !.rank[i + 1] = 2 * crank,
                                   !.start[i + 1] = crank,
                                   !.rd = i + 1,
                                   !.wr = IF acc.wr > i THEN acc.wr ELSE i])

assign_ranks(key, rank, n) ==
    RankLoop(key, n, 0, 1,
             [rank |-> rank, total_ties |-> 0, start |-> [x \in 1..n |-> 0],
              rd |-> 0 - 1, wr |-> 0 - 1])

\* the record kept of a call: the keys it found, the pool size, what it did;
\* foreign says that the slot N behind the pool was not memory the program
\* had written (past the end of the array, or never assigned)
CallRecord(key, n, res, foreign) ==
    [key |-> key, N |-> n, rank |-> res.rank, total_ties |-> res.total_ties,
     start |-> res.start, rd |-> res.rd, wr |-> res.wr, foreign |-> foreign]

NoCall == [key |-> << >>, N |-> 0 - 1, rank |-> << >>, total_ties |-> 0,
           start |-> << >>, rd |-> 0 - 1, wr |-> 0 - 1, foreign |-> FALSE]

\* the values a read behind the pool can yield when the slot is foreign or
\* uninitialised memory: the key of the last pool element, or something else
Foreign(lastkey) == {lastkey, Garbage}

-----------------------------------------------------------------------------
(* qsort with compare / comparediff: ascending by the key.  The order among *)
(* equal keys is unspecified by qsort; the model keeps the insertion order, *)
(* and nothing below reads the order of equal keys apart from comparisons   *)
(* of the keys themselves.                                                  *)

\* the key the comparison function reads from an element: compare reads the
\* value, comparediff the magnitude of the difference
KeyOf(cmp, e) == IF cmp = "compare" THEN e.value
                 ELSE IF e.diff < 0 THEN 0 - e.diff ELSE e.diff

\* qsort(base, n, size, cmp): the element that comes to each place is the one
\* with as many elements before it: those of a smaller key, and those of the
\* same key that stood before it
SortBySmallest(cmp, s) ==
    LET Before(x) ==
            Cardinality({y \in 1..Len(s) :
                            \/ KeyOf(cmp, s[y]) < KeyOf(cmp, s[x])
                            \/ (KeyOf(cmp, s[y]) = KeyOf(cmp, s[x]) /\ y < x)})
    IN [pos \in 1..Len(s) |-> s[CHOOSE x \in 1..Len(s) : Before(x) = 0]]
SortBy(cmp, s) ==
    LET Before(x) ==
            Cardinality({y \in 1..Len(s) :
                            \/ KeyOf(cmp, s[y]) < KeyOf(cmp, s[x])
                            \/ (KeyOf(cmp, s[y]) = KeyOf(cmp, s[x]) /\ y < x)})
    IN [pos \in 1..Len(s) |-> s[CHOOSE x \in 1..Len(s) : Before(x) = pos - 1]]

compare(s) == SortBy("compare", s)


-----------------------------------------------------------------------------
(* check_file and read_file: the two passes over the indicator file *)

\* if (*no_runsp <= MAX_DISTS): the test that guards (Nsamp[*no_runsp-1])++
WithinDistsOffByOne(runs) == runs <= MAX_DISTS + 1
WithinDists(runs) == runs <= MAX_DISTS

\* one pass of the while loop of check_file, on the line ln; st.full says that
\* the branch printing "Please edit MAX_DISTS" was taken (exit(1)): no pass
\* follows it; st.idx holds the indices at which Nsamp was incremented
check_file_step(ln, st) ==
    IF st.full THEN st
    ELSE IF ~ln.num
         THEN [st EXCEPT !.new_run = 1]
         ELSE LET runs == IF st.new_run = 1 THEN st.no_runs + 1 ELSE st.no_runs
              IN IF WithinDists(runs)
                 THEN [st EXCEPT !.no_runs = runs, !.new_run = 0,
                                 !.total = @ + 1, !.Nsamp[runs - 1] = @ + 1,
                                 !.idx = @ \cup {runs - 1}]
                 ELSE [st EXCEPT !.no_runs = runs, !.new_run = 0,
                                 !.total = @ + 1, !.full = TRUE]

\* the passes of the while loop for the lines lo..hi, in file order (the
\* lines are taken half by half, first half first); after exit(1) there is
\* no pass
RECURSIVE check_file_loop(_, _, _, _)
check_file_loop(lines, lo, hi, st) ==
    IF st.full \/ lo > hi THEN st
    ELSE IF lo = hi THEN check_file_step(lines[lo], st)
    ELSE check_file_loop(lines, (lo + hi) \div 2 + 1, hi,
                         check_file_loop(lines, lo, (lo + hi) \div 2, st))

\* check_file of kruskal-wallis.cc and of mann-whit.cc (the same text)
check_file(lines, nsamp) ==
    check_file_loop(lines, 1, Len(lines),
        [no_runs |-> 0, total |-> 0, new_run |-> 1, Nsamp |-> nsamp, full |-> FALSE,
         idx |-> {}])

\* check_file of wilcoxon-sign.cc: the same loop, then the test that every
\* sample has the size of the first one; unequal says that it failed (exit(1)).
\* The for loop reads Nsamp[j] and Nsamp[0] for j = 1.. up to the first
\* sample of another size.
WX_check_fileFromTwo(lines, nsamp) ==
    LET st == check_file(lines, nsamp)
        differ == {x \in 2..(st.no_runs - 1) : st.Nsamp[x] # st.Nsamp[0]}
        last == IF differ = {} THEN st.no_runs - 1
                ELSE CHOOSE x \in differ : \A y \in differ : x <= y
    IN [no_runs |-> st.no_runs, total |-> st.total, Nsamp |-> st.Nsamp, full |-> st.full,
        unequal |-> ~st.full /\ differ # {},
        idx |-> IF st.full \/ st.no_runs < 2 THEN st.idx
                ELSE st.idx \cup (0..last)]
WX_check_file(lines, nsamp) ==
    LET st == check_file(lines, nsamp)
        differ == {x \in 1..(st.no_runs - 1) : st.Nsamp[x] # st.Nsamp[0]}
        last == IF differ = {} THEN st.no_runs - 1
                ELSE CHOOSE x \in differ : \A y \in differ : x <= y
    IN [no_runs |-> st.no_runs, total |-> st.total, Nsamp |-> st.Nsamp, full |-> st.full,
        unequal |-> ~st.full /\ differ # {},
        idx |-> IF st.full \/ st.no_runs < 2 THEN st.idx
                ELSE st.idx \cup (0..last)]

\* read_file: the observations in file order, each with the label clabel, which
\* is the number of lines before it that did not parse.  The rank field is not
\* written by read_file; it holds 0 here until assign_ranks writes it.
\* One pass of its while loop, on the line ln:
read_file_step(ln, st) ==
    IF ~ln.num
    THEN [st EXCEPT !.clabel = @ + 1]
    ELSE [st EXCEPT !.d = Append(@, [value |-> ln.val, label |-> st.clabel, rank |-> 0])]

\* the passes of the while loop for the lines lo..hi, in file order, entered
\* with clabel and d as the passes before lo have left them
RECURSIVE read_file_loop(_, _, _, _)
read_file_loop(lines, lo, hi, st) ==
    IF st.clabel + Len(st.d) < lo - 1 \/ lo > hi THEN st
    ELSE IF lo = hi THEN read_file_step(lines[lo], st)
    ELSE read_file_loop(lines, (lo + hi) \div 2 + 1, hi,
                        read_file_loop(lines, lo, (lo + hi) \div 2, st))

read_file(lines) == read_file_loop(lines, 1, Len(lines), [clabel |-> 0, d |-> << >>]).d

\* sum_of_ranks(d, index, N), doubled
RECURSIVE sum_of_ranks(_, _, _)
sum_of_ranks(dd, index, n) ==
    IF n = 0 THEN 0
    ELSE sum_of_ranks(dd, index, n - 1) + (IF dd[n].label = index THEN dd[n].rank ELSE 0)

\* sum_squared_ranks(d, N), times 4
RECURSIVE sum_squared_ranks(_, _)
sum_squared_ranks(dd, n) ==
    IF n = 0 THEN 0 ELSE sum_squared_ranks(dd, n - 1) + dd[n].rank * dd[n].rank

\* (N*(N+1.0)*(N+1.0))/4.0, lines 266 and 276
MeanTerm(n) ==
    FDiv(FMul(FMul(FInt(n), FAdd(FInt(n), FInt(1))), FAdd(FInt(n), FInt(1))), FInt(4))

\* S_squared(d, N, ndist), lines 273-277.  The squared ranks are multiples of
\* 0.25 and their sum is far below 2^53: sum_squared_ranks adds them exactly
S_squared(dd, n) ==
    FMul(FDiv(FInt(1), FSub(FInt(n), FInt(1))),
         FSub(FQuarter(sum_squared_ranks(dd, n)), MeanTerm(n)))

\* sum after the passes 0..i-1 of the loop of lines 260-264: R[x] * R[x] is
\* exact (R[x] is a multiple of 0.5), the quotient and the sum are rounded
RECURSIVE TvalueSum(_, _, _, _)
TvalueSum(dd, n, nsamp, i) ==
    IF i = 0 THEN FZero
    ELSE FAdd(TvalueSum(dd, n, nsamp, i - 1),
              FDiv(FMul(FQuarter(2 * sum_of_ranks(dd, i - 1, n)),
                        FQuarter(2 * sum_of_ranks(dd, i - 1, n))),
                   FInt(nsamp[i - 1])))

\* Tvalue(d, N, ndist, Nsamp), lines 244-270
Tvalue(dd, n, nd, nsamp) ==
    FMul(FDiv(FInt(1), S_squared(dd, n)),
         FSub(TvalueSum(dd, n, nsamp, nd), MeanTerm(n)))

\* S_squared(d, N, ndist)*(N-1.0-T)/(N-ndist), of which pairwise takes the
\* square root, line 201
Radicand(dd, n, nd, T) ==
    FDiv(FMul(S_squared(dd, n), FSub(FSub(FInt(n), FInt(1)), T)), FInt(n - nd))

-----------------------------------------------------------------------------
(* The inputs *)

Lines == {Blank} \cup {Num(v) : v \in 1..MaxValue}

\* m samples of one observation each, separated by blank lines
RECURSIVE Blocks(_)
Blocks(m) == IF m = 1 THEN <<Num(1)>> ELSE Blocks(m - 1) \o <<Blank, Num(1)>>

\* a sample of SmallSample values and one of SmallSample - 1 values
TwentyAndLess ==
    [x \in 1..SmallSample |-> Num(1)] \o <<Blank>> \o [x \in 1..(SmallSample - 1) |-> Num(2)]

\* the files that are run with every parameter file
SmallFiles ==
    {<<Blank>>, <<Num(1)>>, <<Num(1), Num(2)>>, <<Num(1), Blank, Num(2)>>,
     <<Num(1), Num(2), Blank, Num(3), Num(3)>>}

\* the files with as many samples as Nsamp has counters, with one more, and
\* with a sample that is not a small one
LargeFiles == {Blocks(MAX_DISTS), Blocks(MAX_DISTS + 1), TwentyAndLess}

\* two samples of 4 and of 6 values, each tied within itself
TiedWithin == [x \in 1..4 |-> Num(1)] \o <<Blank>> \o [x \in 1..6 |-> Num(2)]

\* kruskal-wallis.cc: every file of 1..MaxLines lines
KWFiles == SeqsUpTo(Lines, MaxLines) \cup LargeFiles \cup {TiedWithin}

\* a double: a number in thousandths, or not a number
Double(v) == [nan |-> FALSE, val |-> v]
NaN == [nan |-> TRUE, val |-> 0]

\* x <= y and x > y of two doubles: every comparison with a NaN is false
Leq(x, y) == ~x.nan /\ ~y.nan /\ x.val <= y.val
Gt(x, y) == ~x.nan /\ ~y.nan /\ x.val > y.val

\* the parameter file: open says whether fopen(argv[2], "rb") succeeds, kind
\* what follows the first word: nothing at all ("empty": the file is empty or
\* ends after one word), a number ("number", val thousandths), the text nan
\* ("nan"), or a word that is no number ("word")
ParamFile(kind, v) == [open |-> TRUE, kind |-> kind, val |-> v]
NoParamFile == [open |-> FALSE, kind |-> "empty", val |-> 0]
DefaultParam == ParamFile("number", AlphaMax \div 2)

KWParams ==
    {NoParamFile, ParamFile("empty", 0), ParamFile("nan", 0), ParamFile("word", 0)}
    \cup {ParamFile("number", v) :
             v \in {0 - 1, AlphaMin, AlphaMin + 1, AlphaMax, AlphaMax + 1}}

\* mann-whit.cc and wilcoxon-sign.cc never read the file they open
PairParams == {NoParamFile, ParamFile("empty", 0), ParamFile("number", AlphaMax \div 2)}

\* what an automatic double holds that was never assigned
Uninitialised == {Double(AlphaMax \div 2), Double(AlphaMin)}

NoStat == [kind |-> "none"]

InitCommon ==
    /\ pc = "start"
    /\ Nsamp = [x \in 0..(MAX_DISTS - 1) |-> 0]
    /\ ndist = 0 /\ N = 0
    /\ d = << >> /\ pair = << >> /\ pairHigh = 0 /\ p = << >>
    /\ j = 0 /\ k = 0 /\ a = 0 /\ b = 0
    /\ out = << >>
    /\ call = NoCall
    /\ stat = NoStat
    /\ alpha = Double(0)
    /\ err = {}
    /\ nsampIdx = {}

InitKW ==
    /\ tool = "kruskal"
    /\ \/ file \in KWFiles /\ param = DefaultParam
       \/ file \in SmallFiles /\ param \in KWParams
    /\ InitCommon

-----------------------------------------------------------------------------
(* kruskal-wallis.cc, main *)

\* a line of stderr: which message, and the number it names (0 when none)
Diag(msg, arg) == [msg |-> msg, arg |-> arg]

\* fscanf(fp, "%*s %lg\n", &alpha) == EOF, line 92: the input ends before
\* anything could be read for %lg
fscanf_EOF(pf) == pf.kind = "empty"

\* alpha after the call: the number read, NaN for the text nan, and what the
\* variable held before when the text is no number (it was never assigned)
fscanf_alpha(pf) ==
    IF pf.kind = "number" THEN {Double(pf.val)}
    ELSE IF pf.kind = "nan" THEN {NaN}
    ELSE Uninitialised

\* (alpha > 0.1) || (alpha <= 0), line 102
OutOfRange(al) == Gt(al, Double(AlphaMax)) \/ Leq(al, Double(AlphaMin))

\* the parameter file is opened and alpha is read and tested, lines 90-107
KWParam ==
    /\ tool = "kruskal" /\ pc = "start"
    /\ IF ~param.open
       THEN /\ err' = err \cup {Diag("Couldn't open param file", 0)}
            /\ pc' = "exit1" /\ alpha' = alpha
       ELSE IF fscanf_EOF(param)
            THEN /\ err' = err \cup {Diag("Error occurred in parameter file", 0)}
                 /\ pc' = "exit1" /\ alpha' = alpha
            ELSE \E al \in fscanf_alpha(param) :
                    /\ alpha' = al
                    /\ IF OutOfRange(al)
                       THEN /\ err' = err \cup {Diag("alpha must be in the range (0,0.1]", 0)}
                            /\ pc' = "exit1"
                       ELSE err' = err /\ pc' = "params"
    /\ UNCHANGED <<tool, file, Nsamp, ndist, N, d, pair, pairHigh, p, j, k, a, b, out, call,
                   stat, param, nsampIdx>>

\* Nsamp is zeroed; check_file(fp, &ndist, &N, Nsamp), lines 109-117
KWCheck ==
    /\ tool = "kruskal" /\ pc = "params"
    /\ \E st \in {check_file(file, Nsamp)} :
          /\ Nsamp' = st.Nsamp /\ ndist' = st.no_runs /\ N' = st.total
          /\ nsampIdx' = nsampIdx \cup (0..(MAX_DISTS - 1)) \cup st.idx
          /\ pc' = IF st.full THEN "exit1" ELSE "checked"
          /\ err' = IF st.full THEN err \cup {Diag("Please edit MAX_DISTS", 0)} ELSE err
    /\ UNCHANGED <<tool, file, d, pair, pairHigh, p, j, k, a, b, out, call, stat, param, alpha>>

\* the warnings of the loop over the samples, lines 128-132 (mann-whit.cc 125-129)
SmallWarnings(nsamp, nd) ==
    {Diag("Warning: Sample population is of size", x + 1) :
        x \in {y \in 0..(nd - 1) : nsamp[y] < SmallSample}}

\* d = malloc(N * sizeof(D)); read_file(fp, &N, d), and the warnings for the
\* small samples, lines 118-132
KWRead ==
    /\ tool = "kruskal" /\ pc = "checked"
    /\ d' = read_file(file)
    /\ N' = Len(read_file(file))
    /\ err' = err \cup SmallWarnings(Nsamp, ndist)
    /\ nsampIdx' = nsampIdx \cup (0..(ndist - 1))
    /\ pc' = "loaded"
    /\ UNCHANGED <<tool, file, Nsamp, ndist, pair, pairHigh, p, j, k, a, b, out, call, stat,
                   param, alpha>>

\* the keys assign_ranks finds in the slots 0..n+1 of a buffer that holds the
\* sorted pool in its first n elements and is n elements long: the two slots
\* behind it are foreign memory, read as oob
KeysBehind(keys, n, oob) == [x \in 1..(n + 2) |-> IF x <= n THEN keys[x] ELSE oob]

\* qsort(d, N, sizeof(D), compare); assign_ranks(d, N), lines 134-135.
\* d has exactly N elements, so d[N] is not part of it.
KWRank ==
    /\ tool = "kruskal" /\ pc = "loaded"
    /\ \E sorted \in {compare(d)} :
       \E oob \in (IF N = 0 THEN {Garbage} ELSE Foreign(sorted[N].value)) :
       \E key \in {KeysBehind([x \in 1..N |-> sorted[x].value], N, oob)} :
       \E res \in {assign_ranks(key, [x \in 1..(N + 1) |-> 0], N)} :
            /\ d' = [x \in 1..N |-> [sorted[x] EXCEPT !.rank = res.rank[x]]]
            /\ call' = CallRecord(key, N, res, TRUE)
    /\ pc' = "ranked"
    /\ UNCHANGED <<tool, file, Nsamp, ndist, N, pair, pairHigh, p, j, k, a, b, out, stat,
                   param, alpha, err, nsampIdx>>

\* R[i] = sum_of_ranks(d, i, N) for i < ndist, lines 255-256 (Tvalue)
KWSums ==
    /\ tool = "kruskal" /\ pc = "ranked"
    /\ stat' = [kind |-> "kruskal", R |-> [x \in 0..(ndist - 1) |-> sum_of_ranks(d, x, N)]]
    /\ nsampIdx' = nsampIdx \cup (0..(ndist - 1))
    /\ pc' = "summed"
    /\ UNCHANGED <<tool, file, Nsamp, ndist, N, d, pair, pairHigh, p, j, k, a, b, out, call,
                   param, alpha, err>>

\* cdfchi of the distribution library, as mychi uses it: the probability q
\* that a chi-square variate is at least x.  Any probability may come back.
cdfchi == {Double(0), Double(AlphaMax \div 2), Double(AlphaMax \div 2 + 1)}

\* mychi(T, ndist - 1), lines 221-233
mychi == cdfchi

\* the text "H0", line 181
H0 == [text |-> "H0"]

\* the inner for loop of lines 171-177 from jj on: one line per jj # i; the
\* p-value of a line is myt of pairwise(i, jj, ...), kept as the mean ranks
\* pairwise subtracts (line 198)
RECURSIVE KWRow(_, _, _, _, _, _)
KWRow(dd, n, nsamp, nd, i, jj) ==
    IF ~(jj < nd) THEN << >>
    ELSE IF i = jj THEN KWRow(dd, n, nsamp, nd, i, jj + 1)
    ELSE <<[better |-> jj + 1, than |-> i + 1,
            p |-> [Ra |-> sum_of_ranks(dd, i, n), na |-> nsamp[i],
                   Rb |-> sum_of_ranks(dd, jj, n), nb |-> nsamp[jj]]]>>
         \o KWRow(dd, n, nsamp, nd, i, jj + 1)

\* the outer for loop of lines 170-177 from i on
RECURSIVE KWLines(_, _, _, _, _)
KWLines(dd, n, nsamp, nd, i) ==
    IF ~(i < nd) THEN << >>
    ELSE KWRow(dd, n, nsamp, nd, i, 0) \o KWLines(dd, n, nsamp, nd, i + 1)

\* if (allsame <= alpha), line 167
Rejected(allsame, al) == Leq(allsame, al)

\* allsame = mychi(T, ndist - 1); the output file is written, lines 159-187
KWReport ==
    /\ tool = "kruskal" /\ pc = "summed"
    /\ \E allsame \in mychi :
          /\ stat' = stat @@ [allsame |-> allsame]
          /\ out' = IF Rejected(allsame, alpha)
                    THEN KWLines(d, N, Nsamp, ndist, 0)
                    ELSE <<H0>>
          /\ nsampIdx' = IF Rejected(allsame, alpha) /\ ndist >= 2
                         THEN nsampIdx \cup (0..(ndist - 1)) ELSE nsampIdx
    /\ pc' = "done"
    /\ UNCHANGED <<tool, file, Nsamp, ndist, N, d, pair, pairHigh, p, j, k, a, b, call,
                   param, alpha, err>>

NextKW == KWParam \/ KWCheck \/ KWRead \/ KWRank \/ KWSums \/ KWReport

SpecKW == InitKW /\ [][NextKW]_vars


-----------------------------------------------------------------------------
(* mann-whit.cc, main *)

\* Scenario A of the specification: A = 1..5 is sample 1, B = 6..10 is sample 2
ScenarioA ==
    <<Num(1), Num(2), Num(3), Num(4), Num(5), Blank,
      Num(6), Num(7), Num(8), Num(9), Num(10)>>

\* three samples, the third pair of which, (1, 0), leaves the pool 1, 2, 3
\* in front of a 3 the pair (0, 2) has written
StaleTie == <<Num(1), Num(3), Blank, Num(2), Blank, Num(3), Num(3)>>

MWFiles == SeqsUpTo(Lines, MaxLines) \cup {ScenarioA, StaleTie} \cup LargeFiles

InitMW ==
    /\ tool = "mann"
    /\ \/ file \in MWFiles /\ param = DefaultParam
       \/ file \in SmallFiles /\ param \in PairParams
    /\ InitCommon

\* the parameter file is opened and, if that succeeded, closed (lines 89-94:
\* there is no else branch); Nsamp is zeroed; check_file(fp, &ndist, &N,
\* Nsamp), lines 97-105
MWCheck ==
    /\ tool = "mann" /\ pc = "start"
    /\ \E st \in {check_file(file, Nsamp)} :
          /\ Nsamp' = st.Nsamp /\ ndist' = st.no_runs /\ N' = st.total
          /\ nsampIdx' = nsampIdx \cup (0..(MAX_DISTS - 1)) \cup st.idx
          /\ pc' = IF st.full THEN "exit1" ELSE "checked"
          /\ err' = IF st.full THEN err \cup {Diag("Please edit MAX_DISTS", 0)} ELSE err
    /\ UNCHANGED <<tool, file, d, pair, pairHigh, p, j, k, a, b, out, call, stat, param, alpha>>

\* d = malloc(N); pair = malloc(N); read_file(fp, &N, d), lines 113-116, and
\* the warnings for the small samples, lines 125-129.
\* No slot of pair holds a written value yet (pairHigh = 0); the zeros stand
\* for content that is never read as such.
MWRead ==
    /\ tool = "mann" /\ pc = "checked"
    /\ d' = read_file(file)
    /\ N' = Len(read_file(file))
    /\ pair' = [x \in 1..N |-> [value |-> 0, label |-> 0, rank |-> 0]]
    /\ pairHigh' = 0
    /\ err' = err \cup SmallWarnings(Nsamp, ndist)
    /\ nsampIdx' = nsampIdx \cup (0..(ndist - 1))
    /\ pc' = "loaded"
    /\ UNCHANGED <<tool, file, Nsamp, ndist, p, j, k, a, b, out, call, stat, param, alpha>>

\* fopen(argv[3], "w"); fclose(fp): the output file is created empty, lines 131-132
MWOpen ==
    /\ tool = "mann" /\ pc = "loaded"
    /\ out' = << >>
    /\ j' = 0 /\ k' = 0
    /\ pc' = "loop"
    /\ UNCHANGED <<tool, file, Nsamp, ndist, N, d, pair, pairHigh, p, a, b, call, stat, param, alpha, err, nsampIdx>>

\* start: the offset of sample x in d, lines 148-150 and 156-158
RECURSIVE StartOf(_, _)
StartOf(nsamp, x) == IF x = 0 THEN 0 ELSE StartOf(nsamp, x - 1) + nsamp[x - 1]

\* pair as the two copy loops leave it, lines 151-163: the value and label of
\* the first Nsamp[j] + Nsamp[k] slots are written, every rank field is kept
BuildPair(dd, old, nsamp, jj, kk) ==
    [x \in 1..Len(old) |->
        IF x <= nsamp[jj]
        THEN [value |-> dd[(x - 1) + StartOf(nsamp, jj) + 1].value, label |-> jj,
              rank |-> old[x].rank]
        ELSE IF x <= nsamp[jj] + nsamp[kk]
             THEN [value |-> dd[(x - 1 - nsamp[jj]) + StartOf(nsamp, kk) + 1].value,
                   label |-> kk, rank |-> old[x].rank]
             ELSE old[x]]

\* the keys assign_ranks(pair, n) finds in the slots 0..n+1: the sorted pool,
\* then what the buffer holds behind it where an earlier pair wrote a value,
\* and oob where the slot was never written or lies past the N elements
MWKeys(buf, n, high, oob) ==
    [x \in 1..(n + 2) |->
        IF x <= n \/ (x <= Len(buf) /\ x <= high) THEN buf[x].value ELSE oob]

\* corrected_Tvalue(d, n, m, N, idx), lines 223-242.  T1 is returned as the
\* parts of T1 / sqrt(denom):
\*   num2 = 2 * T1 of line 235,  denom = radNum / radDen of line 237,
\*   zero = the early return of line 238
corrected_Tvalue(dd, n, m, nn, idx) ==
    LET T == sum_of_ranks(dd, idx, nn)
        ssR == sum_squared_ranks(dd, nn)
        T1 == T - n * (nn + 1)
    IN [zero |-> T1 = 0,
        num2 |-> T1,
        radNum |-> n * m * (ssR - nn * (nn + 1) * (nn + 1)),
        radDen |-> 4 * nn * (nn - 1)]

\* the next (j, k) of the two nested for loops
NextIndexShort(x, y, nd) == IF y + 2 < nd THEN <<x, y + 1>> ELSE <<x + 1, 0>>
NextIndex(x, y, nd) == IF y + 1 < nd THEN <<x, y + 1>> ELSE <<x + 1, 0>>

\* one pass of the inner loop body for j # k, lines 146-200
MWPair ==
    /\ tool = "mann" /\ pc = "loop" /\ j < ndist /\ j # k
    /\ LET n == Nsamp[j] + Nsamp[k]
           built == BuildPair(d, pair, Nsamp, j, k)
       IN \E sorted \in {compare(SubSeq(built, 1, n)) \o SubSeq(built, n + 1, Len(built))} :
          \E oob \in Foreign(sorted[n].value) :
          \E key \in {MWKeys(sorted, n, pairHigh, oob)} :
          \E res \in {assign_ranks(key,
                        [x \in 1..(n + 1) |-> IF x <= Len(sorted) THEN sorted[x].rank ELSE 0], n)} :
          \E ranked \in {[x \in 1..Len(sorted) |->
                            IF x <= n + 1 THEN [sorted[x] EXCEPT !.rank = res.rank[x]]
                            ELSE sorted[x]]} :
          \E T \in {corrected_Tvalue(ranked, Nsamp[j], Nsamp[k], n, j)} :
               /\ pair' = ranked
               /\ pairHigh' = IF n > pairHigh THEN n ELSE pairHigh
               /\ call' = CallRecord(key, n, res, ~(n + 1 <= Len(sorted) /\ n + 1 <= pairHigh))
               /\ stat' = [kind |-> "mann", j |-> j, k |-> k, T |-> T,
                           Rj |-> sum_of_ranks(ranked, j, n),
                           Rk |-> sum_of_ranks(ranked, k, n)]
               /\ out' = Append(out, [better |-> k + 1, than |-> j + 1, p |-> T])
    /\ j' = NextIndex(j, k, ndist)[1]
    /\ k' = NextIndex(j, k, ndist)[2]
    /\ nsampIdx' = nsampIdx \cup (0..(IF j > k THEN j ELSE k))
    /\ UNCHANGED <<tool, file, pc, Nsamp, ndist, N, d, p, a, b, param, alpha, err>>

\* if (j == k) continue, lines 144-145
MWSkip ==
    /\ tool = "mann" /\ pc = "loop" /\ j < ndist /\ j = k
    /\ j' = NextIndex(j, k, ndist)[1]
    /\ k' = NextIndex(j, k, ndist)[2]
    /\ UNCHANGED <<tool, file, pc, Nsamp, ndist, N, d, pair, pairHigh, p, a, b, out, call, stat, param, alpha, err, nsampIdx>>

\* the warning about multiple tests on the same samples (ndist > 2)
ManyTests(nd) == IF nd > 2 THEN {Diag("Warning: multiple tests on the same sample", 0)} ELSE {}

\* the loops are over: the warning for more than two samples, return(0),
\* lines 203-206
MWEnd ==
    /\ tool = "mann" /\ pc = "loop" /\ ~(j < ndist)
    /\ err' = err \cup ManyTests(ndist)
    /\ pc' = "done"
    /\ UNCHANGED <<tool, file, Nsamp, ndist, N, d, pair, pairHigh, p, j, k, a, b, out, call, stat, param, alpha, nsampIdx>>

NextMW == MWCheck \/ MWRead \/ MWOpen \/ MWPair \/ MWSkip \/ MWEnd

SpecMW == InitMW /\ [][NextMW]_vars


-----------------------------------------------------------------------------
(* wilcoxon-sign.cc: init_W *)

\* W[n][0..8] for n = 4..50, row by row, every entry DOUBLED (W[5][8] = 7.5 is
\* 15 here) so that it compares with a doubled rank sum
WTable ==
    <<
      <<0, 0, 0, 0, 2, 6, 6, 8, 10>>,
      <<0, 0, 0, 2, 6, 8, 10, 12, 15>>,
      <<0, 0, 2, 6, 8, 12, 16, 18, 21>>,
      <<0, 2, 6, 8, 12, 18, 22, 24, 28>>,
      <<2, 4, 8, 12, 18, 24, 28, 32, 36>>,
      <<4, 8, 12, 18, 22, 30, 36, 40, 45>>,
      <<8, 12, 18, 22, 30, 38, 44, 50, 55>>,
      <<12, 16, 22, 28, 36, 46, 54, 60, 66>>,
      <<16, 20, 28, 36, 44, 56, 64, 72, 78>>,
      <<20, 26, 36, 44, 54, 66, 76, 84, 91>>,
      <<26, 32, 44, 52, 64, 78, 88, 96, 105>>,
      <<32, 40, 52, 62, 74, 90, 102, 110, 120>>,
      <<40, 48, 60, 72, 86, 102, 116, 126, 136>>,
      <<48, 56, 70, 84, 98, 116, 130, 142, 153>>,
      <<56, 66, 82, 96, 112, 132, 146, 160, 171>>,
      <<66, 76, 94, 108, 126, 148, 164, 178, 190>>,
      <<76, 88, 106, 122, 140, 166, 182, 196, 210>>,
      <<88, 100, 118, 136, 156, 182, 200, 216, 231>>,
      <<98, 112, 134, 152, 174, 200, 220, 238, 253>>,
      <<110, 126, 148, 168, 190, 220, 240, 260, 276>>,
      <<124, 140, 164, 184, 210, 240, 262, 282, 300>>,
      <<138, 154, 180, 202, 228, 262, 286, 306, 325>>,
      <<152, 170, 198, 222, 250, 284, 310, 330, 351>>,
      <<168, 188, 216, 240, 270, 308, 334, 356, 378>>,
      <<184, 204, 234, 262, 292, 332, 360, 384, 406>>,
      <<202, 222, 254, 282, 316, 356, 386, 412, 435>>,
      <<220, 242, 276, 304, 340, 382, 414, 440, 465>>,
      <<238, 262, 296, 328, 364, 410, 442, 470, 496>>,
      <<258, 282, 320, 352, 390, 438, 472, 500, 528>>,
      <<278, 304, 342, 376, 416, 466, 502, 532, 561>>,
      <<298, 326, 366, 402, 444, 496, 532, 564, 595>>,
      <<320, 350, 392, 428, 472, 526, 566, 598, 630>>,
      <<344, 374, 418, 456, 502, 558, 598, 634, 666>>,
      <<368, 398, 444, 484, 532, 592, 632, 670, 703>>,
      <<392, 424, 472, 514, 564, 624, 668, 706, 741>>,
      <<416, 450, 500, 544, 596, 658, 704, 744, 780>>,
      <<442, 478, 530, 574, 628, 694, 742, 782, 820>>,
      <<470, 506, 560, 606, 662, 730, 780, 822, 861>>,
      <<496, 534, 590, 640, 698, 768, 818, 862, 903>>,
      <<526, 564, 622, 674, 732, 806, 858, 904, 946>>,
      <<454, 594, 656, 708, 770, 844, 900, 946, 990>>,
      <<584, 626, 688, 744, 806, 884, 942, 990, 1035>>,
      <<616, 658, 724, 780, 846, 926, 984, 1034, 1081>>,
      <<648, 692, 758, 816, 884, 968, 1028, 1080, 1128>>,
      <<680, 726, 794, 856, 926, 1010, 1072, 1126, 1176>>,
      <<714, 762, 832, 894, 966, 1054, 1118, 1174, 1225>>,
      <<748, 796, 870, 934, 1008, 1100, 1166, 1222, 1275>>
    >>

\* W[n][lev] of the array double W[51][9]: init_W assigns the rows 4..50, the
\* rows 0..3 keep the zeros of a static array, and there is no other row
W(n, lev) ==
    IF n \in MinDiffs..MaxRow /\ lev \in 0..8 THEN WTable[n - 3][lev + 1]
    ELSE IF n \in 0..(MinDiffs - 1) /\ lev \in 0..8 THEN 0
    ELSE Garbage

\* Wsig[0..8] in thousandths: 0.005, 0.01, 0.025, 0.05, 0.1, 0.2, 0.3, 0.4, 0.5
WsigTable == <<5, 10, 25, 50, 100, 200, 300, 400, 500>>

Wsig(lev) == WsigTable[lev + 1]


-----------------------------------------------------------------------------
(* wilcoxon-sign.cc, main *)

WXValues == (0..WXMaxValue) \cup {BigValue}

\* two samples of m values: the first holds c throughout, the second is B
PairedFile(c, B) ==
    [x \in 1..Len(B) |-> Num(c)] \o <<Blank>> \o [x \in 1..Len(B) |-> Num(B[x])]

\* two samples of 9 values of which 5 pairs do not differ: more than half ties
ManyTies(t) == PairedFile(0, <<0, 0, 0, 0, 0>> \o t)

\* two samples of 6 values: two pairs that do not differ, three small
\* differences and one above Sentinel
TwoZerosAndBig(t) == PairedFile(0, <<0, 0>> \o t \o <<BigValue>>)

\* two samples of MaxRow + 1 values with the differences 1, .., 1, 2, .., 2,
\* 3, ... in runs of eight, the first z of which are replaced by 0
LongPaired(z) ==
    PairedFile(0, [x \in 1..(MaxRow + 1) |-> IF x <= z THEN 0 ELSE 1 + (x \div 8)])

\* three samples of MinDiffs values: the second differs from the first in
\* every place, the third in the last place only
ThreeSamples ==
    [x \in 1..MinDiffs |-> Num(0)] \o <<Blank>> \o [x \in 1..MinDiffs |-> Num(1)]
    \o <<Blank>> \o [x \in 1..MinDiffs |-> Num(IF x < MinDiffs THEN 0 ELSE 2)]

\* samples that are not all of one size: the second or the third one differs
Ragged ==
    {<<Num(1), Blank, Num(2), Num(2)>>,
     <<Num(1), Num(2), Blank, Num(2)>>,
     <<Num(1), Num(1), Blank, Num(2), Num(2), Blank, Num(2)>>}

WXFiles ==
    {PairedFile(c, B) : c \in 0..WXMaxBase, B \in SeqsUpTo(WXValues, MaxPairs)}
    \cup {ManyTies(t) : t \in [1..4 -> 1..WXMaxValue]}
    \cup {TwoZerosAndBig(t) : t \in [1..3 -> 1..WXMaxValue]}
    \cup {LongPaired(z) : z \in 0..1}
    \cup {ThreeSamples}
    \cup Ragged
    \cup LargeFiles

\* Scenario B of the specification: A = 1,1,1,1,1 and B = 2,2,2,2,2
ScenarioB == PairedFile(1, <<2, 2, 2, 2, 2>>)

InitWX ==
    /\ tool = "wilcoxon"
    /\ \/ file \in WXFiles /\ param = DefaultParam
       \/ file \in SmallFiles \cup {ScenarioB} /\ param \in PairParams
    /\ InitCommon

\* the parameter file is opened and, if that succeeded, closed (lines 110-115:
\* there is no else branch); Nsamp is zeroed; check_file(fp, &ndist, &N,
\* Nsamp), lines 118-126
WXCheck ==
    /\ tool = "wilcoxon" /\ pc = "start"
    /\ \E st \in {WX_check_file(file, Nsamp)} :
          /\ Nsamp' = st.Nsamp /\ ndist' = st.no_runs /\ N' = st.total
          /\ nsampIdx' = nsampIdx \cup (0..(MAX_DISTS - 1)) \cup st.idx
          /\ pc' = IF st.full \/ st.unequal THEN "exit1" ELSE "checked"
          /\ err' = IF st.full THEN err \cup {Diag("Please edit MAX_DISTS", 0)}
                    ELSE IF st.unequal
                         THEN err \cup {Diag("Two samples are not of the same size", 0)}
                         ELSE err
    /\ UNCHANGED <<tool, file, d, pair, pairHigh, p, j, k, a, b, out, call, stat, param, alpha>>

\* d = malloc(N); p = malloc(Nsamp[0]); read_file(fp, &N, d), lines 134-137.
\* The zeros of p stand for content that is written before it is read.
WXRead ==
    /\ tool = "wilcoxon" /\ pc = "checked"
    /\ d' = read_file(file)
    /\ N' = Len(read_file(file))
    /\ p' = [x \in 1..Nsamp[0] |-> [diff |-> 0, rank |-> 0, sigrank |-> 0]]
    /\ nsampIdx' = nsampIdx \cup {0} \cup (0..(ndist - 1))
    /\ pc' = "loaded"
    /\ UNCHANGED <<tool, file, Nsamp, ndist, pair, pairHigh, j, k, a, b, out, call, stat, param, alpha, err>>

\* fopen(argv[3], "w"); fclose(fp), lines 145-146
WXOpen ==
    /\ tool = "wilcoxon" /\ pc = "loaded"
    /\ out' = << >>
    /\ a' = 0 /\ b' = 0
    /\ pc' = "loop"
    /\ UNCHANGED <<tool, file, Nsamp, ndist, N, d, pair, pairHigh, p, j, k, call, stat, param, alpha, err, nsampIdx>>

\* p[i].diff = d[Nsamp[0]*b+i].value - d[Nsamp[0]*a+i].value, line 163
RawDiffSwapped(dd, size, aa, bb, x) == dd[size * aa + x].value - dd[size * bb + x].value
RawDiff(dd, size, aa, bb, x) == dd[size * bb + x].value - dd[size * aa + x].value

\* the for loop of lines 161-173: the differences, a zero one replaced by
\* 10e99; the rank and sigrank fields keep what they held
Differences(dd, old, size, aa, bb) ==
    [x \in 1..size |->
        [old[x] EXCEPT !.diff = IF RawDiff(dd, size, aa, bb, x) = 0 THEN Sentinel
                                 ELSE RawDiff(dd, size, aa, bb, x)]]

\* ties, as the same loop counts it
TiesOf(dd, size, aa, bb) == Cardinality({x \in 1..size : RawDiff(dd, size, aa, bb, x) = 0})

comparediff(s) == SortBy("comparediff", s)

\* the keys assign_ranks(p, n) finds in the slots 0..n+1: p has Nsamp[0]
\* elements, every diff of which was written; oob lies past them
WXKeys(buf, n, oob) ==
    [x \in 1..(n + 2) |-> IF x <= Len(buf) THEN myabs(buf[x].diff) ELSE oob]

\* lines 181-187: the signed rank of the first n elements
SignRanks(buf, n) ==
    [x \in 1..Len(buf) |->
        IF x <= n
        THEN [buf[x] EXCEPT !.sigrank = IF buf[x].diff < 0 THEN 0 - buf[x].rank ELSE buf[x].rank]
        ELSE buf[x]]

\* Tplus, lines 260-265 (doubled)
RECURSIVE TplusOf(_, _)
TplusOf(buf, n) ==
    IF n = 0 THEN 0
    ELSE TplusOf(buf, n - 1) + (IF buf[n].diff > 0 THEN buf[n].sigrank ELSE 0)

\* the sum of the ranks of the negative differences among the first n (doubled)
RECURSIVE TminusOf(_, _)
TminusOf(buf, n) ==
    IF n = 0 THEN 0
    ELSE TminusOf(buf, n - 1) + (IF buf[n].diff < 0 THEN 0 - buf[n].sigrank ELSE 0)

\* sum_of_ranks and sum_of_sq_ranks of lines 211-218 (doubled, times 4)
RECURSIVE SignedSum(_, _)
SignedSum(buf, n) == IF n = 0 THEN 0 ELSE SignedSum(buf, n - 1) + buf[n].sigrank

RECURSIVE SignedSquares(_, _)
SignedSquares(buf, n) ==
    IF n = 0 THEN 0 ELSE SignedSquares(buf, n - 1) + buf[n].sigrank * buf[n].sigrank

\* while (W[n][j] < Tplus && j < 8) j++, lines 271-276, from j = lev on
RECURSIVE UpperScan(_, _, _)
UpperScan(n, Tplus, lev) ==
    IF W(n, lev) < Tplus /\ lev < 8 THEN UpperScan(n, Tplus, lev + 1) ELSE lev

\* while ((n*(n-1))/2 - W[n][j] > Tplus && j < 8) j++, lines 278-280
RECURSIVE LowerScan(_, _, _)
LowerScan(n, Tplus, lev) ==
    IF n * (n - 1) - W(n, lev) > Tplus /\ lev < 8 THEN LowerScan(n, Tplus, lev + 1) ELSE lev

\* if (n < 4), line 198
TooFewBelow(n) == n < MinDiffs - 1
TooFew(n) == n < MinDiffs

\* if ((n > 50) || (double(ties)/double(Nsamp[0]) > 0.5)), line 205
UseNormalLate(n, ties, size) == n > MaxRow + 1 \/ 2 * ties > size
UseNormal(n, ties, size) == n > MaxRow \/ 2 * ties > size

\* the elements of W the two scans read: W[n][0..j] up to the level each
\* scan stops at
ScanReads(n, Tplus) ==
    {<<n, lev>> : lev \in 0..UpperScan(n, Tplus, 0)}
    \cup {<<n, lev>> : lev \in 0..LowerScan(n, Tplus, 0)}

\* the p-value of one pair, lines 205-310: which branch computes it and from what
PValue(buf, n, ties, size) ==
    IF UseNormal(n, ties, size)
    THEN [path |-> "normal", sum |-> SignedSum(buf, n), sumsq |-> SignedSquares(buf, n),
          reads |-> {}]
    ELSE [path |-> "table", Tplus |-> TplusOf(buf, n),
          level |-> UpperScan(n, TplusOf(buf, n), 0),
          lower |-> LowerScan(n, TplusOf(buf, n), 0),
          pvalue |-> Wsig(UpperScan(n, TplusOf(buf, n), 0)),
          reads |-> ScanReads(n, TplusOf(buf, n))]

\* one pass of the inner loop body for a # b, lines 159-310
WXPair ==
    /\ tool = "wilcoxon" /\ pc = "loop" /\ a < ndist /\ a # b
    /\ \E size \in {Nsamp[0]} :
       \E ties \in {TiesOf(d, size, a, b)} :
       \E sorted \in {comparediff(Differences(d, p, size, a, b))} :
       \E n \in {size - ties} :
       \E oob \in (IF n = 0 THEN {Garbage} ELSE Foreign(myabs(sorted[n].diff))) :
       \E key \in {WXKeys(sorted, n, oob)} :
       \E res \in {assign_ranks(key,
                     [x \in 1..(n + 1) |-> IF x <= size THEN sorted[x].rank ELSE 0], n)} :
       \E ranked \in {SignRanks([x \in 1..size |->
                                   IF x <= n + 1 THEN [sorted[x] EXCEPT !.rank = res.rank[x]]
                                   ELSE sorted[x]], n)} :
            /\ p' = ranked
            /\ call' = CallRecord(key, n, res, ~(n + 1 <= size))
            /\ IF TooFew(n)
               THEN /\ pc' = "exit1"
                    /\ err' = err \cup {Diag("Need at least 4 values in a sample", 0)}
                    /\ stat' = [kind |-> "wilcoxon", a |-> a, b |-> b, ties |-> ties, n |-> n,
                                Tplus |-> TplusOf(ranked, n), Tminus |-> TminusOf(ranked, n),
                                pvalue |-> [path |-> "none", reads |-> {}]]
                    /\ UNCHANGED <<out, a, b>>
               ELSE \E pv \in {PValue(ranked, n, ties, size)} :
                    /\ stat' = [kind |-> "wilcoxon", a |-> a, b |-> b, ties |-> ties, n |-> n,
                                Tplus |-> TplusOf(ranked, n), Tminus |-> TminusOf(ranked, n),
                                pvalue |-> pv]
                    /\ out' = Append(out, [better |-> b + 1, than |-> a + 1, p |-> pv])
                    /\ a' = NextIndex(a, b, ndist)[1]
                    /\ b' = NextIndex(a, b, ndist)[2]
                    /\ pc' = pc /\ err' = err
    /\ nsampIdx' = nsampIdx \cup {0}
    /\ UNCHANGED <<tool, file, Nsamp, ndist, N, d, pair, pairHigh, j, k, param, alpha>>

\* if (a == b) continue, lines 157-158
WXSkip ==
    /\ tool = "wilcoxon" /\ pc = "loop" /\ a < ndist /\ a = b
    /\ a' = NextIndex(a, b, ndist)[1]
    /\ b' = NextIndex(a, b, ndist)[2]
    /\ UNCHANGED <<tool, file, pc, Nsamp, ndist, N, d, pair, pairHigh, p, j, k, out, call, stat, param, alpha, err, nsampIdx>>

\* the loops are over: the warning for more than two samples, return(0),
\* lines 315-317
WXEnd ==
    /\ tool = "wilcoxon" /\ pc = "loop" /\ ~(a < ndist)
    /\ err' = err \cup ManyTests(ndist)
    /\ pc' = "done"
    /\ UNCHANGED <<tool, file, Nsamp, ndist, N, d, pair, pairHigh, p, j, k, a, b, out, call, stat, param, alpha, nsampIdx>>

NextWX == WXCheck \/ WXRead \/ WXOpen \/ WXPair \/ WXSkip \/ WXEnd

SpecWX == InitWX /\ [][NextWX]_vars

-----------------------------------------------------------------------------
(* The three programs together *)

Init == InitKW \/ InitMW \/ InitWX

Next == NextKW \/ NextMW \/ NextWX

Spec == Init /\ [][Next]_vars


-----------------------------------------------------------------------------
(* Claims *)

\* a call of assign_ranks on a pool of at least one element has been made
Ranked == call.N >= 1

\* the pool of the last call holds no two equal keys
NoTies == \A x, y \in 1..call.N : x # y => call.key[x] # call.key[y]

\* C1: after assign_ranks has run on a sorted pool of N >= 1 observations, the
\* ranks of the elements 0..N-1 sum to N(N+1)/2 (ranks are doubled here)
C1_RankSum == Ranked => SumSeq(call.rank, call.N) = call.N * (call.N + 1)

\* C2: in a pool without equal keys the element at sorted position i (0-based)
\* has rank i + 1, the last element included
C2_NoTieRanks == (Ranked /\ NoTies) => \A x \in 1..call.N : call.rank[x] = 2 * x

\* the elements s..e (1-based positions) of the pool are a maximal run of
\* more than one equal key
MaximalRun(s, e) ==
    /\ 1 <= s /\ s < e /\ e <= call.N
    /\ \A x \in s..e : call.key[x] = call.key[s]
    /\ (s = 1 \/ call.key[s - 1] # call.key[s])
    /\ (e = call.N \/ call.key[e + 1] # call.key[e])

\* C3: every element of a maximal run of c + 1 equal keys that starts at
\* natural rank r has rank r + c/2, no element outside the run has that rank,
\* and the loop resumes at the element behind the run with natural rank
\* r + c + 1 (here r = s and c = e - s)
C3_TieRuns ==
    Ranked =>
      \A s, e \in 1..call.N :
         MaximalRun(s, e) =>
            /\ \A x \in s..e : call.rank[x] = 2 * s + (e - s)
            /\ \A x \in (1..call.N) \ (s..e) : call.rank[x] # 2 * s + (e - s)
            /\ (e < call.N => call.start[e + 1] = e + 1)

\* a pool with a run at its start, a run in its middle and a run that ends at
\* its last element
C3_Witness ==
    /\ Ranked
    /\ \E e \in 1..call.N : MaximalRun(1, e)
    /\ \E s \in 1..call.N : MaximalRun(s, call.N)
    /\ \E s, e \in 2..(call.N - 1) : MaximalRun(s, e)

\* mann-whit.cc on the samples jj and kk alone: the pool is sorted in a buffer
\* that holds nothing else, and nothing behind it equals its last key
AlonePool(jj, kk) ==
    LET n == Nsamp[jj] + Nsamp[kk]
    IN compare(BuildPair(d, [x \in 1..n |-> [value |-> 0, label |-> 0, rank |-> 0]],
                         Nsamp, jj, kk))

AloneRanks(jj, kk) ==
    LET n == Nsamp[jj] + Nsamp[kk]
        pool == AlonePool(jj, kk)
    IN assign_ranks(KeysBehind([x \in 1..n |-> pool[x].value], n, Garbage),
                    [x \in 1..(n + 1) |-> 0], n).rank

AloneT(jj, kk) ==
    LET n == Nsamp[jj] + Nsamp[kk]
        pool == AlonePool(jj, kk)
        ranks == AloneRanks(jj, kk)
    IN corrected_Tvalue([x \in 1..n |-> [pool[x] EXCEPT !.rank = ranks[x]]],
                        Nsamp[jj], Nsamp[kk], n, jj)

\* a read of memory the program had not written found the last key of the pool
ForeignHit == call.foreign /\ call.N >= 1 /\ call.key[call.N + 1] = call.key[call.N]

\* C4: the ranks and T1 (hence the p-value) computed for the ordered pair
\* (j, k) are those of a run on the samples j and k alone, whatever the other
\* samples and the pairs processed before (runs in which foreign memory
\* happened to hold the last key of the pool are left aside: there the run on
\* the two samples alone differs from itself)
C4_PairAlone ==
    (stat.kind = "mann" /\ ~ForeignHit) =>
       /\ \A x \in 1..call.N : call.rank[x] = AloneRanks(stat.j, stat.k)[x]
       /\ stat.T = AloneT(stat.j, stat.k)

\* C5: the labels of the loaded observations are exactly 0..ndist-1 and
\* Nsamp[x] observations carry the label x
C5_Labels ==
    (tool = "kruskal" /\ pc \in {"loaded", "ranked", "done"}) =>
       /\ {d[x].label : x \in 1..Len(d)} = 0..(ndist - 1)
       /\ \A l \in 0..(ndist - 1) :
             Cardinality({x \in 1..Len(d) : d[x].label = l}) = Nsamp[l]

\* C6: Scenario A: R_A = 15, R_B = 40, and T1 of the line "2 better than 1"
\* is positive, as a p-value 1 - Phi(T1) below 0.01 needs
C6_ScenarioA ==
    (tool = "mann" /\ file = ScenarioA /\ stat.kind = "mann" /\ stat.j = 0 /\ stat.k = 1) =>
       /\ stat.Rj = 2 * 15 /\ stat.Rk = 2 * 40
       /\ out[Len(out)].better = 2 /\ out[Len(out)].than = 1
       /\ ~out[Len(out)].p.zero /\ out[Len(out)].p.num2 > 0

\* the smallest level whose critical value is strictly greater than Tplus,
\* the last level when there is none
FirstAbove(n, Tplus) ==
    IF \E x \in 0..8 : W(n, x) > Tplus
    THEN CHOOSE x \in 0..8 : W(n, x) > Tplus /\ \A y \in 0..(x - 1) : ~(W(n, y) > Tplus)
    ELSE 8

\* C7: on the table path the p-value is Wsig of the smallest level whose
\* critical value is strictly greater than Tplus, and 0.5 when there is none
C7_TableScan ==
    (stat.kind = "wilcoxon" /\ stat.pvalue.path = "table") =>
       stat.pvalue.pvalue = Wsig(FirstAbove(stat.n, stat.Tplus))

\* C8: Scenario B, the pair reported as "2 better than 1": no difference is
\* dropped, n = 5, every rank is 3, Tplus = 15, the table path is taken, row 5
\* of the table is 0,0,0,1,3,4,5,6,7.5, every entry of which is below Tplus,
\* and the p-value written is 0.5
C8_ScenarioB ==
    (tool = "wilcoxon" /\ file = ScenarioB /\ stat.kind = "wilcoxon"
       /\ stat.a = 0 /\ stat.b = 1) =>
       /\ stat.ties = 0 /\ stat.n = 5
       /\ \A x \in 1..5 : p[x].rank = 2 * 3 /\ p[x].diff = 1
       /\ stat.Tplus = 2 * 15 /\ stat.Tplus = stat.n * (stat.n + 1)
       /\ stat.pvalue.path = "table"
       /\ [x \in 1..9 |-> W(5, x - 1)] = <<0, 0, 0, 2, 6, 8, 10, 12, 15>>
       /\ \A x \in 0..8 : W(5, x) < stat.Tplus
       /\ stat.pvalue.level = 8
       /\ out[Len(out)] = [better |-> 2, than |-> 1, p |-> stat.pvalue]
       /\ out[Len(out)].p.pvalue = 500

C8_Witness ==
    /\ tool = "wilcoxon" /\ file = ScenarioB /\ stat.kind = "wilcoxon"
    /\ stat.a = 0 /\ stat.b = 1 /\ Len(out) = 1

\* C9: for every ordered pair with n >= 4, Tplus + Tminus = n(n+1)/2
C9_SignedSum ==
    (stat.kind = "wilcoxon" /\ stat.n >= 4) =>
       stat.Tplus + stat.Tminus = stat.n * (stat.n + 1)

\* the differences B_i - A_i of the pair computed last, and those that are not 0
PairDiffs == [x \in 1..Nsamp[0] |-> RawDiff(d, Nsamp[0], stat.a, stat.b, x)]
NonZero == {x \in 1..Nsamp[0] : PairDiffs[x] # 0}

\* C10: after the sort the first n = size - zeros elements of p are exactly
\* the non-zero differences B_i - A_i, ascending by absolute value, and the
\* number of zero differences is the tie count
C10_ZerosDropped ==
    stat.kind = "wilcoxon" =>
       /\ stat.ties = Nsamp[0] - Cardinality(NonZero)
       /\ stat.n = Cardinality(NonZero)
       /\ \A v \in {PairDiffs[x] : x \in NonZero} \cup {p[x].diff : x \in 1..stat.n} :
             Cardinality({x \in NonZero : PairDiffs[x] = v})
                = Cardinality({x \in 1..stat.n : p[x].diff = v})
       /\ \A x \in 1..(stat.n - 1) : myabs(p[x].diff) <= myabs(p[x + 1].diff)

PairsBefore(aa, bb, nd) == aa * (nd - 1) + (IF bb < aa THEN bb ELSE bb - 1)

\* C12: when a pair has fewer than 4 non-zero differences the run has ended
\* with exit code 1, neither path was entered for the pair, and the output
\* holds the lines of the pairs before it and no other line
C12_TooFewExit ==
    (stat.kind = "wilcoxon" /\ stat.n < 4) =>
       /\ pc = "exit1"
       /\ stat.pvalue.path = "none"
       /\ Len(out) = PairsBefore(stat.a, stat.b, ndist)
       /\ \A x \in 1..Len(out) :
             PairsBefore(out[x].than - 1, out[x].better - 1, ndist)
                < PairsBefore(stat.a, stat.b, ndist)

\* the run has stopped at the second pair, more than half of whose
\* differences are zero, after the line of the first pair was written
C12_Witness ==
    /\ stat.kind = "wilcoxon" /\ stat.n < 4 /\ 2 * stat.ties > Nsamp[0]
    /\ pc = "exit1" /\ Len(out) = 1

\* the two samples of the pair computed last have equal mean rank:
\* R_j / n_j = R_k / n_k
EqualMeanRank == stat.Rj * Nsamp[stat.k] = stat.Rk * Nsamp[stat.j]

\* C13: corrected_Tvalue returns exactly 0 whenever the two samples have equal
\* mean rank, that condition is the same as the numerator R_a - n_a(N+1)/2
\* being zero, and a pool whose values are all tied is such a case, with the
\* radicand zero (runs in which foreign memory happened to hold the last key
\* of the pool are left aside)
C13_Degenerate ==
    (stat.kind = "mann" /\ ~ForeignHit) =>
       /\ (EqualMeanRank => stat.T.zero)
       /\ (stat.T.zero <=> stat.T.num2 = 0)
       /\ (stat.T.num2 = 0 <=> EqualMeanRank)
       /\ ((\A x \in 1..call.N : call.key[x] = call.key[1])
              => (stat.T.zero /\ stat.T.radNum = 0))

\* C14: when kruskal-wallis reaches the output stage, the output is exactly
\* "H0" if and only if the omnibus p-value is greater than alpha; otherwise it
\* is exactly ndist(ndist-1) lines "<j+1> better than <i+1> ...", one for each
\* ordered pair (i, j) with i # j, i outer and j inner, and no "H0"
C14_Report ==
    (tool = "kruskal" /\ pc = "done") =>
       /\ (out = <<H0>>) <=> Gt(stat.allsame, alpha)
       /\ ~Gt(stat.allsame, alpha) =>
             /\ Len(out) = ndist * (ndist - 1)
             /\ \A x \in 1..Len(out) :
                   /\ DOMAIN out[x] = {"better", "than", "p"}
                   /\ out[x].better # out[x].than
                   /\ PairsBefore(out[x].than - 1, out[x].better - 1, ndist) = x - 1

\* a run of mann-whit or wilcoxon-sign that loaded its samples has ended
PairRunEnded ==
    /\ tool \in {"mann", "wilcoxon"}
    /\ pc = "done" \/ (pc = "exit1" /\ stat # NoStat)

\* the output is one line per ordered pair, first index outer and second
\* index inner, the line of (x, y) reading "<y+1> better than <x+1> ..."
PairLines ==
    /\ Len(out) = ndist * (ndist - 1)
    /\ \A x \in 1..Len(out) :
          /\ out[x].better # out[x].than
          /\ PairsBefore(out[x].than - 1, out[x].better - 1, ndist) = x - 1

BlockCount ==
    Cardinality({x \in 1..Len(file) : file[x].num /\ (x = 1 \/ ~file[x - 1].num)})

\* the run has ended
Ended == pc \in {"done", "exit1"}

\* C16: in each of the three tools a run on an indicator file with fewer than
\* 2 sample blocks ends with exit code 1 and a diagnostic, and nothing is
\* written to the output
C16_TooFewBlocks ==
    (Ended /\ BlockCount < 2) => (pc = "exit1" /\ err # {} /\ out = << >>)

\* the parameter file can be opened and holds a number alpha with
\* 0 < alpha <= 0.1
GoodAlpha ==
    /\ param.open /\ param.kind = "number"
    /\ AlphaMin < param.val /\ param.val <= AlphaMax

\* C17: kruskal-wallis reads the indicator file and writes the output only if
\* the parameter file could be opened and gave alpha with 0 < alpha <= 0.1;
\* with any other parameter file the run ends with exit code 1 before the
\* indicator file is read or any output is created
C17_AlphaGate ==
    tool = "kruskal" =>
       /\ ~GoodAlpha =>
             /\ pc \in {"start", "exit1"}
             /\ ndist = 0 /\ d = << >> /\ out = << >>
             /\ pc = "exit1" => err # {}
       /\ pc \notin {"start", "exit1"} => alpha = Double(param.val)

\* C18: mann-whit and wilcoxon-sign need the parameter file to exist: a run
\* whose parameter file cannot be opened ends with exit code 1 and writes no
\* result line
C18_ParamMustExist ==
    (tool \in {"mann", "wilcoxon"} /\ ~param.open) =>
       /\ pc \in {"start", "exit1"}
       /\ out = << >>

\* C19: in each of the three tools, once the samples are loaded, a warning
\* naming the sample is on the error stream for every sample with fewer than
\* 20 observations, and no run ends because of it before its results
C19_SmallSamples ==
    pc \in {"loaded", "loop", "ranked", "summed", "done"} =>
       \A x \in 0..(ndist - 1) :
          Nsamp[x] < SmallSample =>
             Diag("Warning: Sample population is of size", x + 1) \in err

\* Nsamp has been zeroed and check_file has been called
Checked == nsampIdx # {}

\* C20: in each tool a file with more than MAX_DISTS blocks ends the run with
\* exit code 1 before anything is read, computed or written, a file with up
\* to MAX_DISTS blocks is not rejected for the number of its blocks, and
\* Nsamp is never read or written at an index outside 0..MAX_DISTS-1
C20_MaxDists ==
    /\ nsampIdx \subseteq 0..(MAX_DISTS - 1)
    /\ (Checked /\ BlockCount > MAX_DISTS) =>
          /\ pc = "exit1" /\ Diag("Please edit MAX_DISTS", 0) \in err
          /\ d = << >> /\ stat = NoStat /\ out = << >>
    /\ (Checked /\ BlockCount <= MAX_DISTS) =>
          /\ Diag("Please edit MAX_DISTS", 0) \notin err
          /\ ndist = BlockCount

C20_Witness ==
    /\ BlockCount = MAX_DISTS + 1 /\ pc = "exit1"
    /\ Diag("Please edit MAX_DISTS", 0) \in err
    /\ (MAX_DISTS - 1) \in nsampIdx

\* line y of the indicator file is the first line of a sample block
BlockStart(y) == file[y].num /\ (y = 1 \/ ~file[y - 1].num)

\* the first line of block x (x = 1..BlockCount)
StartLine(x) ==
    CHOOSE y \in 1..Len(file) :
        BlockStart(y) /\ Cardinality({z \in 1..y : BlockStart(z)}) = x

\* the number of observations of the block that starts at line y
SizeFrom(y) ==
    Cardinality({z \in y..Len(file) : \A w \in y..z : file[w].num})

\* some block has another size than the first one
UnequalBlocks ==
    \E x \in 2..BlockCount : SizeFrom(StartLine(x)) # SizeFrom(StartLine(1))

\* C21: in wilcoxon-sign a block whose size differs from the first block's
\* ends the run with exit code 1 inside check_file, before the observations
\* are loaded, the output is created or a pair is processed; a run that
\* passes has Nsamp[0] observations in every block, and d[Nsamp[0]*a+i] is
\* the i-th observation of sample a
C21_EqualSizes ==
    (tool = "wilcoxon" /\ Checked) =>
       /\ UnequalBlocks =>
             /\ pc = "exit1" /\ err # {}
             /\ d = << >> /\ out = << >> /\ stat = NoStat
       /\ pc # "exit1" \/ stat # NoStat =>
             \A x \in 0..(ndist - 1) :
                /\ Nsamp[x] = Nsamp[0]
                /\ SizeFrom(StartLine(x + 1)) = Nsamp[0]
                /\ pc # "checked" =>
                      \A i \in 1..Nsamp[0] :
                         d[Nsamp[0] * x + i].value = file[StartLine(x + 1) + i - 1].val

C21_Witness ==
    /\ tool = "wilcoxon" /\ UnequalBlocks /\ BlockCount <= MAX_DISTS
    /\ pc = "exit1"
    /\ Diag("Two samples are not of the same size", 0) \in err

\* the ranks the last call of assign_ranks writes to its pool in a run on the
\* same files in which the memory behind the pool holds oob
RanksWith(oob) ==
    assign_ranks([x \in DOMAIN call.key |-> IF x > call.N THEN oob ELSE call.key[x]],
                 call.rank, call.N).rank

\* T1 of the last pair of mann-whit in that run
TWith(oob) ==
    corrected_Tvalue([x \in 1..Len(pair) |->
                         IF x <= call.N THEN [pair[x] EXCEPT !.rank = RanksWith(oob)[x]]
                         ELSE pair[x]],
                     Nsamp[stat.j], Nsamp[stat.k], call.N, stat.j)

\* C22: two runs of a tool on the same indicator file and parameter file give
\* the same results: the ranks of every pool, and with them the statistic of
\* every line, do not depend on what the memory behind the pool holds
C22_Deterministic ==
    (call.N >= 1 /\ call.foreign) =>
       \A oob \in Foreign(call.key[call.N]) :
          /\ \A x \in 1..call.N : RanksWith(oob)[x] = call.rank[x]
          /\ stat.kind = "mann" => TWith(oob) = out[Len(out)].p

\* read_file has returned
Loaded == pc \notin {"start", "params", "checked"}

\* the value and the label of an observation
Sample(e) == [value |-> e.value, label |-> e.label]

\* t holds the observations of s, each as often as s does, in some order
Permuted(s, t) ==
    /\ Len(s) = Len(t)
    /\ \A x \in 1..Len(s) :
          Cardinality({y \in 1..Len(t) : Sample(t[y]) = Sample(s[x])})
             = Cardinality({y \in 1..Len(s) : Sample(s[y]) = Sample(s[x])})

\* C23: once read_file has returned no step changes Nsamp or the value and
\* label of a loaded observation: mann-whit and wilcoxon-sign leave d as it is,
\* kruskal-wallis only reorders the elements of d and writes their ranks
C23_Immutable ==
    [][Loaded =>
          /\ Nsamp' = Nsamp
          /\ IF tool = "kruskal" THEN Permuted(d, d') ELSE d' = d]_vars

C23_Witness ==
    /\ tool = "kruskal" /\ pc = "done" /\ N >= 3
    /\ \E x \in 1..(N - 1) : d[x].label > d[x + 1].label
    /\ \E x \in 1..N : d[x].rank # 0

\* C24: a call assign_ranks(arr, N) with N >= 1 reads keys and writes ranks
\* only in the slots 0..N-1: it neither compares the last element with the
\* slot at index N nor writes a rank there
C24_InsidePool ==
    call.N >= 1 => (call.rd <= call.N - 1 /\ call.wr <= call.N - 1)

\* twice the rank of the x-th observation of a correctly ranked pool: the
\* mean of the places its value takes in the sorted order
MidRank(dd, x) ==
    2 * Cardinality({y \in 1..Len(dd) : dd[y].value < dd[x].value})
    + Cardinality({y \in 1..Len(dd) : dd[y].value = dd[x].value}) + 1

\* k >= 2 non-empty samples, N > k, two distinct values, and every
\* observation carries the label of its sample and its correct rank
RankedPool ==
    /\ tool = "kruskal" /\ pc = "summed"
    /\ ndist >= 2 /\ N > ndist /\ Len(d) = N
    /\ \A x \in 0..(ndist - 1) :
          Nsamp[x] >= 1 /\ Cardinality({y \in 1..N : d[y].label = x}) = Nsamp[x]
    /\ \E x, y \in 1..N : d[x].value # d[y].value
    /\ \A x \in 1..N : d[x].rank = MidRank(d, x)

\* the product of Nsamp[0..i-1]
RECURSIVE SizeProduct(_, _)
SizeProduct(nsamp, i) == IF i = 0 THEN 1 ELSE nsamp[i - 1] * SizeProduct(nsamp, i - 1)

\* sum_j R_j^2/n_j over the samples 0..i-1, times 4 * scale (scale is a
\* multiple of every n_j)
RECURSIVE ScaledSum(_, _, _, _, _)
ScaledSum(dd, n, nsamp, i, scale) ==
    IF i = 0 THEN 0
    ELSE ScaledSum(dd, n, nsamp, i - 1, scale)
         + sum_of_ranks(dd, i - 1, n) * sum_of_ranks(dd, i - 1, n)
           * (scale \div nsamp[i - 1])

\* N(N+1)^2/4 <= sum_j R_j^2/n_j <= sum_i rank_i^2 in exact arithmetic
ExactBounds ==
    LET scale == SizeProduct(Nsamp, ndist)
        mid == ScaledSum(d, N, Nsamp, ndist, scale)
    IN /\ N * (N + 1) * (N + 1) * scale <= mid
       /\ mid <= sum_squared_ranks(d, N) * scale

\* 0 <= T <= N-1 and 0 <= radicand for the doubles the program computes
DoubleBounds ==
    \A T \in {Tvalue(d, N, ndist, Nsamp)} :
        /\ FCmp(T, FZero) >= 0
        /\ FCmp(T, FInt(N - 1)) <= 0
        /\ FCmp(Radicand(d, N, ndist, T), FZero) >= 0

\* C25: for every correctly ranked pool with k >= 2 non-empty samples, N > k
\* and two distinct values, the statistic T of the Kruskal-Wallis tool
\* satisfies 0 <= T <= N-1, i.e. N(N+1)^2/4 <= sum_j R_j^2/n_j <= sum_i
\* rank_i^2, and the radicand S^2*(N-1-T)/(N-k) of pairwise is not negative
C25_StatisticBounded == RankedPool => (ExactBounds /\ DoubleBounds)

\* the same pools, in exact arithmetic only
C25_ExactOnly == RankedPool => ExactBounds

\* W[n][j] <= W[n][j+1] for the rows n = 4..50 and j = 0..7
RowsAscend ==
    \A n \in MinDiffs..MaxRow : \A lev \in 0..7 : W(n, lev) <= W(n, lev + 1)

\* W[n][j] <= W[n+1][j] for n = 4..49 and j = 0..8
ColumnsAscend ==
    \A n \in MinDiffs..(MaxRow - 1) : \A lev \in 0..8 : W(n, lev) <= W(n + 1, lev)

\* C26: the table of critical values that init_W fills for the Wilcoxon tool
\* is monotone in both indices: W[n][j] <= W[n][j+1] for n in 4..50 and j in
\* 0..7, and W[n][j] <= W[n+1][j] for n in 4..49 and j in 0..8
C26_TableMonotone == tool = "wilcoxon" => (RowsAscend /\ ColumnsAscend)

\* the rows alone (what the table scan of one pair relies on)
C26_RowsOnly == tool = "wilcoxon" => RowsAscend

=============================================================================
